---- MODULE Spec2Model ----
(***************************************************************************)
(* CyberIntel tiles (src/app.py): the per-category news cache, its lock,   *)
(* the freshness controller _ensure_fresh, the category fetcher, the       *)
(* background refresher and the two JSON endpoints that drive them.        *)
(*                                                                         *)
(* Text (titles, links, summaries) is a sequence of string fragments, so   *)
(* that an f-string is a concatenation and str.strip() drops fragments;    *)
(* "" is <<>>.  A Python value that is None or a tuple is <<>> or <<v>>.   *)
(* Time is in seconds; an ISO timestamp is the number of seconds it names. *)
(***************************************************************************)
EXTENDS Integers, Sequences, FiniteSets, TLC

VARIABLES
    now,            \* the wall clock read by _now() and _iso_now()
    cache_lock,     \* _cache_lock: the thread holding it, or NoThread
    news_cache,     \* _news_cache: the bucket of each category, NoBucket when absent
    last_build,     \* _last_build_time_iso
    seen_ids,       \* _seen_ids
    th,             \* per thread: position and locals of the running handler
    bg_wake,        \* the time time.sleep() of the background refresher ends
    calls,          \* number of requests started so far
    sent,           \* history: the (title, link) keys handed to _notify_new_items
    resent          \* history: the keys handed to it more than once

vars == <<now, cache_lock, news_cache, last_build, seen_ids, th, bg_wake, calls,
          sent, resent>>

----------------------------------------------------------------------------
(* Bounds of the model *)

\* requests (api_news, api_refresh, direct _ensure_fresh calls) started in a run
MaxCalls == 1

\* the last second of the clock, which starts at 0: one second past the TTL
MaxTime == 601

----------------------------------------------------------------------------
(* Configuration *)

CACHE_TTL_SECONDS == 600
BACKGROUND_REFRESH_SECONDS == 600
FEED_ENTRY_CAP == 30
SOURCE_MAX_ITEMS == 25
CATEGORY_ITEM_CAP == 60

\* The first two of the seven configured categories: one with a single feed and
\* the Feodo cards, one with two feeds.
CATEGORIES == <<"Ransomware", "Vulnerabilities">>

\* A category identifier that is configured nowhere.
UnknownCategory == "Unlisted"

CategoryIds == {CATEGORIES[i] : i \in 1..Len(CATEGORIES)} \cup {UnknownCategory}

\* a lookup that falls back on a default feed for an unconfigured category
FEEDS_WithDefault(cat) ==
    CASE cat = "Ransomware" -> <<"bleepingcomputer/ransomware">>
      [] cat = "Vulnerabilities" -> <<"thehackernews/Vulnerability", "packetstorm/vulnerabilities">>
      [] OTHER -> <<"bleepingcomputer/feed">>

FEEDS(cat) ==
    CASE cat = "Ransomware" -> <<"bleepingcomputer/ransomware">>
      [] cat = "Vulnerabilities" -> <<"thehackernews/Vulnerability", "packetstorm/vulnerabilities">>
      [] OTHER -> <<>>

API_QUERIES(cat) ==
    CASE cat = "Ransomware" -> <<"ransomware">>
      [] cat = "Vulnerabilities" -> <<"cve OR vulnerability">>
      [] OTHER -> <<>>

FeodoCategories == {"Ransomware", "Malware/Tools", "APT"}

Threads == {"bg", "t1"}
RequestThreads == Threads \ {"bg"}
NoThread == "none"

----------------------------------------------------------------------------
(* Sequences *)

Range(s) == {s[i] : i \in 1..Len(s)}

Take(s, n) == SubSeq(s, 1, IF n < Len(s) THEN n ELSE Len(s))

\* out = []; for i, x in enumerate(s): if i in positions: out.append(x)
Pick(s, positions) ==
    LET kept == SelectSeq([i \in 1..Len(s) |-> i], LAMBDA i : i \in positions)
    IN [k \in 1..Len(kept) |-> s[kept[k]]]

RECURSIVE Flatten(_)
Flatten(ss) == IF ss = <<>> THEN <<>> ELSE Head(ss) \o Flatten(Tail(ss))

\* str.strip(): leading and trailing whitespace fragments are dropped
RECURSIVE LStrip(_)
LStrip(s) == IF s # <<>> /\ Head(s) = " " THEN LStrip(Tail(s)) ELSE s

RECURSIVE RStrip(_)
RStrip(s) == IF s # <<>> /\ s[Len(s)] = " " THEN RStrip(SubSeq(s, 1, Len(s) - 1)) ELSE s

Strip(s) == RStrip(LStrip(s))

\* x or y, on values whose falsy form is <<>>
Or(x, y) == IF x # <<>> THEN x ELSE y

Key(it) == <<it.title, it.link>>

\* a sort that puts the oldest first
SortDesc_Ascending(s) ==
    LET ahead == SubSeq([i \in 1..Len(s) |->
                            Cardinality({j \in 1..Len(s) :
                                            \/ s[j].published < s[i].published
                                            \/ s[j].published = s[i].published /\ j < i})],
                        1, Len(s))
    IN [k \in 1..Len(s) |-> s[CHOOSE i \in 1..Len(s) : ahead[i] = k - 1]]

\* list.sort(key=published, reverse=True): stable, greatest first.  The item
\* at position i moves behind the items published later and the items
\* published at the same time that stood before it.
SortDesc(s) ==
    LET ahead == SubSeq([i \in 1..Len(s) |->
                            Cardinality({j \in 1..Len(s) :
                                            \/ s[j].published > s[i].published
                                            \/ s[j].published = s[i].published /\ j < i})],
                        1, Len(s))
    IN [k \in 1..Len(s) |-> s[CHOOSE i \in 1..Len(s) : ahead[i] = k - 1]]

----------------------------------------------------------------------------
(* Entry normalizer *)

\* Raw feed entries.  bad marks an entry whose field access raises.
RawDated ==
    [title |-> <<" ", "Patch now">>, link |-> <<"https://news/1">>,
     summary |-> <<>>, description |-> <<"desc">>,
     source_title |-> <<>>, author |-> <<"staff">>,
     published_parsed |-> <<>>, updated_parsed |-> <<5>>, bad |-> FALSE]

RawUndated ==
    [title |-> <<"Leak">>, link |-> <<>>,
     summary |-> <<"sum", " ">>, description |-> <<"desc">>,
     source_title |-> <<"Wire">>, author |-> <<"staff">>,
     published_parsed |-> <<>>, updated_parsed |-> <<>>, bad |-> FALSE]

RawBad ==
    [title |-> <<"Broken">>, link |-> <<"https://news/3">>,
     summary |-> <<>>, description |-> <<>>,
     source_title |-> <<>>, author |-> <<>>,
     published_parsed |-> <<0>>, updated_parsed |-> <<>>, bad |-> TRUE]

RawEntries == {RawDated, RawUndated, RawBad}

\* a normalizer that prefers the description to the summary
_normalize_entry_DescriptionFirst(entry, t) ==
    [title |-> Strip(Or(entry.title, <<>>)),
     link |-> Or(entry.link, <<>>),
     summary |-> Strip(Or(Or(entry.description, entry.summary), <<>>)),
     source |-> Or(Or(entry.source_title, entry.author), <<>>),
     published |-> LET published_parsed == Or(entry.published_parsed, entry.updated_parsed)
                   IN IF published_parsed # <<>> THEN published_parsed[1] ELSE t]

_normalize_entry(entry, t) ==
    [title |-> Strip(Or(entry.title, <<>>)),
     link |-> Or(entry.link, <<>>),
     summary |-> Strip(Or(Or(entry.summary, entry.description), <<>>)),
     source |-> Or(Or(entry.source_title, entry.author), <<>>),
     published |-> LET published_parsed == Or(entry.published_parsed, entry.updated_parsed)
                   IN IF published_parsed # <<>> THEN published_parsed[1] ELSE t]

----------------------------------------------------------------------------
(* Sources *)

\* feedparser.parse(url), then the loop over its first 30 entries: an exception
\* anywhere ends this feed, keeping the items appended before it.
RECURSIVE NormalizeUntilRaise(_, _)
NormalizeUntilRaise(entries, t) ==
    IF entries = <<>> \/ Head(entries).bad THEN <<>>
    ELSE <<_normalize_entry(Head(entries), t)>> \o NormalizeUntilRaise(Tail(entries), t)

\* a feed loop over all the entries
FeedItems_Uncut(resp, t) ==
    IF ~resp.ok THEN <<>>
    ELSE NormalizeUntilRaise(resp.entries, t)

FeedItems(resp, t) ==
    IF ~resp.ok THEN <<>>
    ELSE NormalizeUntilRaise(Take(resp.entries, FEED_ENTRY_CAP), t)

RawPulse == [name |-> <<"Pulse">>, id |-> <<"p1">>, description |-> <<>>,
             modified |-> <<>>, created |-> <<7>>]

PulseItem(p, t) ==
    [title |-> Strip(Or(p.name, <<"OTX pulse">>)),
     link |-> IF p.id # <<>> THEN <<"https://otx.alienvault.com/pulse/">> \o p.id
              ELSE <<"https://otx.alienvault.com/">>,
     summary |-> Strip(Or(p.description, <<>>)),
     source |-> <<"AlienVault OTX">>,
     published |-> LET m == Or(p.modified, p.created)
                   IN IF m # <<>> THEN m[1] ELSE t]

\* resp.key: OTX_API_KEY is set; resp.ok: the request and its JSON decoding succeed
_fetch_otx_for_category(cat, resp, t) ==
    IF ~resp.key THEN <<>>
    ELSE IF API_QUERIES(cat) = <<>> THEN <<>>
    ELSE IF ~resp.ok THEN <<>>
    ELSE LET ps == Take(resp.results, SOURCE_MAX_ITEMS)
         IN [i \in 1..Len(ps) |-> PulseItem(ps[i], t)]

FeodoTemplates == <<"lists {ip} as an active command-and-control endpoint",
                    "{ip} is currently flagged in the blocklist",
                    "reports {ip} as part of a botnet infrastructure",
                    "{ip} is tagged as a high-risk C2 node">>

\* the lines kept: non-empty and not starting with "#", then stripped
RECURSIVE FeodoLines(_)
FeodoLines(raw) ==
    IF raw = <<>> THEN <<>>
    ELSE (IF Head(raw) # <<>> /\ Head(Head(raw)) # "#" THEN <<Strip(Head(raw))>> ELSE <<>>)
         \o FeodoLines(Tail(raw))

_fetch_feodo_iocs(resp, t) ==
    IF ~resp.ok THEN <<>>
    ELSE LET lines == Take(FeodoLines(resp.lines), SOURCE_MAX_ITEMS)
         IN [i \in 1..Len(lines) |->
                [title |-> <<"Feodo C2 IP ">> \o lines[i],
                 link |-> <<"https://feodotracker.abuse.ch/browse/">>,
                 summary |-> <<FeodoTemplates[((i - 1) % Len(FeodoTemplates)) + 1]>> \o lines[i],
                 source |-> <<"Abuse.ch Feodo Tracker">>,
                 published |-> t]]

----------------------------------------------------------------------------
(* Fallback content *)

FallbackItem(title, link, source, t) ==
    [title |-> <<title>>, link |-> <<link>>, summary |-> <<"curated">>,
     source |-> <<source>>, published |-> t]

_fallback_items(cat, t) ==
    CASE cat = "Ransomware" ->
            <<FallbackItem("CISA Ransomware Guidance & Resources",
                           "https://www.cisa.gov/stopransomware", "CISA", t),
              FallbackItem("Nomoreransom.org Decryption Tools",
                           "https://www.nomoreransom.org/en/decryption-tools.html",
                           "No More Ransom", t)>>
      [] cat = "Vulnerabilities" ->
            <<FallbackItem("NVD - National Vulnerability Database",
                           "https://nvd.nist.gov/vuln/search", "NIST", t),
              FallbackItem("CISA Known Exploited Vulnerabilities Catalog",
                           "https://www.cisa.gov/known-exploited-vulnerabilities-catalog",
                           "CISA", t)>>
      [] OTHER -> <<>>

PlaceholderItem(cat, t) ==
    [title |-> <<cat, " - no live headlines right now">>,
     link |-> <<"#">>,
     summary |-> <<"Nothing live from the feeds at this moment.">>,
     source |-> <<"System">>,
     published |-> t]

----------------------------------------------------------------------------
(* Category fetcher *)

\* What the sources answer to one _fetch_category call: one response per feed
\* URL of the category, one of the OTX search, one of the Feodo blocklist.
FeedFailure == [ok |-> FALSE, entries |-> <<>>]
FeedResponses ==
    {FeedFailure, [ok |-> TRUE, entries |-> <<RawDated, RawUndated>>]}

\* OTX_API_KEY is unset (its default): no search is made
OtxNoKey == [key |-> FALSE, ok |-> FALSE, results |-> <<>>]
OtxResponses == {OtxNoKey}

FeodoFailure == [ok |-> FALSE, lines |-> <<>>]
\* the blocklist is out of reach: requests.get() raises
FeodoResponses == {FeodoFailure}

NoFeodo == [ok |-> TRUE, lines |-> <<>>]

SourceResponses(cat) ==
    {[feeds |-> fs, otx |-> o, feodo |-> f] :
        fs \in [1..Len(FEEDS(cat)) -> FeedResponses],
        o \in OtxResponses,
        f \in (IF cat \in FeodoCategories THEN FeodoResponses ELSE {NoFeodo})}

\* Answers with repeated entries and with more entries than the caps let through.
\* The third entry of FeedRepeats has the title and link of the first, after
\* stripping, under another text and date.
RawDatedAgain ==
    [RawDated EXCEPT !.title = <<"Patch now", " ">>, !.description = <<"desc, revised">>,
                     !.updated_parsed = <<9>>]

FeedRepeats == [ok |-> TRUE, entries |-> <<RawDated, RawUndated, RawDatedAgain>>]

FeedLong ==
    [ok |-> TRUE,
     entries |-> [i \in 1..FEED_ENTRY_CAP + 1 |->
                     [RawDated EXCEPT !.title = <<"Story ", ToString(i)>>,
                                      !.link = <<"https://news/s", ToString(i)>>,
                                      !.updated_parsed = <<i>>]]]

OtxLong ==
    [key |-> TRUE, ok |-> TRUE,
     results |-> [i \in 1..SOURCE_MAX_ITEMS + 1 |->
                     [RawPulse EXCEPT !.name = <<"Pulse ", ToString(i)>>,
                                      !.id = <<"p", ToString(i)>>,
                                      !.created = <<i + i>>]]]

\* a comment line, an address, a blank line, the same address again, and
\* SOURCE_MAX_ITEMS more addresses
FeodoLong ==
    [ok |-> TRUE,
     lines |-> <<<<"#", " Feodo Tracker blocklist">>, <<"10.0.0.1">>, <<>>, <<"10.0.0.1", " ">>>>
               \o [i \in 1..SOURCE_MAX_ITEMS |-> <<"10.0.1.", ToString(i)>>]]

\* Entries that take the other branches of _normalize_entry: one with no
\* field at all, one with every field and blanks around its texts, one whose
\* summary is blank.
RawBare ==
    [title |-> <<>>, link |-> <<>>, summary |-> <<>>, description |-> <<>>,
     source_title |-> <<>>, author |-> <<>>,
     published_parsed |-> <<>>, updated_parsed |-> <<>>, bad |-> FALSE]

RawPadded ==
    [title |-> <<" ", "Advisory", " ">>, link |-> <<"https://news/4">>,
     summary |-> <<" ", "sum", " ">>, description |-> <<"desc">>,
     source_title |-> <<"Wire">>, author |-> <<"staff">>,
     published_parsed |-> <<3>>, updated_parsed |-> <<8>>, bad |-> FALSE]

RawBlankSummary ==
    [title |-> <<"Blank">>, link |-> <<"https://news/5">>,
     summary |-> <<" ">>, description |-> <<" ", "desc">>,
     source_title |-> <<>>, author |-> <<"staff">>,
     published_parsed |-> <<>>, updated_parsed |-> <<8>>, bad |-> FALSE]

FeedFields ==
    [ok |-> TRUE,
     entries |-> <<RawDated, RawUndated, RawBare, RawPadded, RawBlankSummary>>]

\* a feed whose second entry makes _normalize_entry raise
FeedBroken == [ok |-> TRUE, entries |-> <<RawDated, RawBad, RawUndated>>]

EntrySourceResponses(cat) ==
    {[feeds |-> fs, otx |-> OtxNoKey,
      feodo |-> IF cat \in FeodoCategories THEN FeodoFailure ELSE NoFeodo] :
        fs \in [1..Len(FEEDS(cat)) -> {FeedFailure, FeedFields, FeedBroken}]}

RichSourceResponses(cat) ==
    {[feeds |-> fs, otx |-> o, feodo |-> f] :
        fs \in [1..Len(FEEDS(cat)) -> {FeedRepeats, FeedLong}],
        o \in {OtxNoKey, OtxLong},
        f \in (IF cat \in FeodoCategories THEN {FeodoFailure, FeodoLong} ELSE {NoFeodo})}

\* a de-dupe that keeps the last item of each key
Dedupe_KeepLast(items, seen) ==
    LET Unseen(i) == /\ Key(items[i]) \notin seen
                     /\ \A j \in i + 1..Len(items) : Key(items[j]) # Key(items[i])
    IN Pick(items, {i \in 1..Len(items) : Unseen(i)})

\* the de-dupe loop, begun with the keys seen: an item is appended when its key
\* is not among them, and its key joins them, so that an item is appended
\* exactly when no item before it has its key
Dedupe(items, seen) ==
    LET Unseen(i) == /\ Key(items[i]) \notin seen
                     /\ \A j \in 1..i - 1 : Key(items[j]) # Key(items[i])
    IN Pick(items, {i \in 1..Len(items) : Unseen(i)})

\* a fetch that a failing feed ends
RECURSIVE FeedsUntilFailure(_, _)
FeedsUntilFailure(resps, t) ==
    IF resps = <<>> \/ ~Head(resps).ok THEN <<>>
    ELSE FeedItems(Head(resps), t) \o FeedsUntilFailure(Tail(resps), t)

CollectItems_StopAtFailure(cat, env, t) ==
    FeedsUntilFailure(env.feeds, t)

\* the items of every source, in the order the sources are asked
CollectItems(cat, env, t) ==
    Flatten([i \in 1..Len(FEEDS(cat)) |-> FeedItems(env.feeds[i], t)])
    \o _fetch_otx_for_category(cat, env.otx, t)
    \o (IF cat \in FeodoCategories THEN _fetch_feodo_iocs(env.feodo, t) ELSE <<>>)

\* a fetch that returns all it found
_fetch_category_Uncut(cat, env, t) ==
    SortDesc(Dedupe(CollectItems(cat, env, t), {}))

_fetch_category(cat, env, t) ==
    Take(SortDesc(Dedupe(CollectItems(cat, env, t), {})), CATEGORY_ITEM_CAP)

----------------------------------------------------------------------------
(* Freshness controller: the pure parts of _ensure_fresh *)

\* _news_cache.get(cat) is None
NoBucket == [ts |-> 0 - 1, items |-> <<>>]

Present(cache, cat) == cache[cat] # NoBucket

\* a bucket that expires when it is exactly TTL old
IsStale_AtTtl(cache, cat, t) ==
    ~Present(cache, cat) \/ t - cache[cat].ts >= CACHE_TTL_SECONDS

\* not bucket or (_now() - bucket["ts"] > CACHE_TTL_SECONDS)
IsStale(cache, cat, t) ==
    ~Present(cache, cat) \/ t - cache[cat].ts > CACHE_TTL_SECONDS

\* the fallbacks without the placeholder of lines 520-527
WithFallback_NoPlaceholder(cat, fetched, t) ==
    IF fetched = <<>> THEN _fallback_items(cat, t) ELSE fetched

\* the fallbacks without the curated list of lines 518-519
WithFallback_NoCurated(cat, fetched, t) ==
    IF fetched = <<>> THEN <<PlaceholderItem(cat, t)>> ELSE fetched

\* lines 518-527: the fetched list, else the curated list, else the placeholder
WithFallback(cat, fetched, t) ==
    LET curated == IF fetched = <<>> THEN _fallback_items(cat, t) ELSE fetched
    IN IF curated = <<>> THEN <<PlaceholderItem(cat, t)>> ELSE curated

\* a test that lets the placeholder link through
Notifiable_Hash(it) == it.link # <<>>

\* it.get("link") not in ("", "#")
Notifiable(it) == it.link \notin {<<>>, <<"#">>}

\* a scan that never marks an item seen
ScanNew_NoAdd(items, seen) ==
    LET Fresh(i) == Key(items[i]) \notin seen /\ Notifiable(items[i])
    IN <<Pick(items, {i \in 1..Len(items) : Fresh(i)}), seen>>

\* a scan that rebuilds the seen set from the list it is given
ScanNew_Rebuild(items, seen) ==
    LET Fresh(i) == Key(items[i]) \notin seen /\ Notifiable(items[i])
    IN <<Pick(items, {i \in 1..Len(items) : Fresh(i)}),
         {Key(items[i]) : i \in {j \in 1..Len(items) : Notifiable(items[j])}}>>

\* a scan that marks the key of every item it looks at, whatever its link
ScanNew_MarksAll(items, seen) ==
    LET Fresh(i) == /\ Key(items[i]) \notin seen
                    /\ Notifiable(items[i])
                    /\ \A j \in 1..i - 1 : Key(items[j]) # Key(items[i])
    IN <<Pick(items, {i \in 1..Len(items) : Fresh(i)}),
         seen \cup {Key(items[i]) : i \in 1..Len(items)}>>

\* lines 530-535: the scan for new items; the result is <<new_items, _seen_ids>>.
\* An item is appended, and its key added to _seen_ids, when its link is real
\* and its key is not in _seen_ids: not there before the scan and not added by
\* an item before it (which, having its key, has its link).
ScanNew(items, seen) ==
    LET Fresh(i) == /\ Key(items[i]) \notin seen
                    /\ Notifiable(items[i])
                    /\ \A j \in 1..i - 1 : Key(items[j]) # Key(items[i])
        new_items == Pick(items, {i \in 1..Len(items) : Fresh(i)})
    IN <<new_items, seen \cup {Key(items[i]) : i \in {j \in 1..Len(items) : Fresh(j)}}>>

----------------------------------------------------------------------------
(* State *)

NoEnv == [feeds |-> <<>>, otx |-> OtxNoKey, feodo |-> NoFeodo]
NoResult == [kind |-> "none", items |-> <<>>, updated |-> 0]

\* api_news: limit: int = Query(60, ge=1, le=200)
Limits == {2, 60}

\* The clock advances by exactly the TTL or by more: a bucket stored just
\* before is then as old as a fresh one may be, or stale.
ClockSteps == CACHE_TTL_SECONDS..MaxTime

EmptyCache == [c \in CategoryIds |-> NoBucket]

\* a clear that removes nothing
Cleared_KeepsBuckets(cache) == cache

\* _news_cache.clear()
Cleared(cache) == EmptyCache

\* A thread outside every handler.  The locals of _ensure_fresh are cat, items,
\* new_items and bucket; merged is that of api_news.  History of the
\* running _ensure_fresh call: age, the bucket's age at the staleness test (-1:
\* absent or not tested); fetched, _fetch_category was called, with env what the
\* sources answered and raw what it returned; behind, another thread refetched
\* the same category while this one waited for the lock.  start is the time
\* api_refresh was called; newest, the latest fetched_at of the buckets api_news
\* has merged (-1: none yet).
Idle ==
    [pc |-> "idle", op |-> "none", idx |-> 0, cat |-> "", items |-> <<>>,
     new_items |-> <<>>, bucket |-> NoBucket, merged |-> <<>>,
     start |-> 0, age |-> 0 - 1, fetched |-> FALSE, env |-> NoEnv, raw |-> <<>>,
     behind |-> FALSE, newest |-> 0 - 1, result |-> NoResult]

\* the call _ensure_fresh(c): its locals are fresh
Call(r, c) ==
    [r EXCEPT !.pc = "lock", !.cat = c, !.items = <<>>, !.new_items = <<>>,
              !.bucket = NoBucket, !.age = 0 - 1, !.fetched = FALSE, !.env = NoEnv,
              !.raw = <<>>, !.behind = FALSE]

\* The next iteration of "for c in CATEGORIES": the call _ensure_fresh(c), or
\* what follows the loop.
NextCall(r, i) ==
    IF i <= Len(CATEGORIES)
    THEN [Call(r, CATEGORIES[i]) EXCEPT !.idx = i]
    ELSE [Call(r, "") EXCEPT !.idx = i,
                             !.pc = CASE r.op = "news" -> "news_fin"
                                      [] r.op = "refresh" -> "refresh_fin"
                                      [] OTHER -> "sleep"]

\* _ensure_fresh returned bucket b to its caller
AfterReturn(r, b) ==
    CASE r.op = "direct" ->
            [Idle EXCEPT !.result = [kind |-> "bucket", items |-> b.items, updated |-> b.ts]]
      [] r.op = "news" ->
            NextCall([r EXCEPT !.merged = r.merged \o b.items,
                               !.newest = IF b.ts > r.newest THEN b.ts ELSE r.newest],
                     r.idx + 1)
      [] OTHER -> NextCall(r, r.idx + 1)

\* a _prewarm that lets the exception of _ensure_fresh through
AfterRaise_Propagates(r) ==
    [Idle EXCEPT !.result = [kind |-> "error", items |-> <<>>, updated |-> 0]]

\* _ensure_fresh raised: _prewarm passes, api_news and a direct caller fail
AfterRaise(r) ==
    IF r.op \in {"direct", "news"}
    THEN [Idle EXCEPT !.result = [kind |-> "error", items |-> <<>>, updated |-> 0]]
    ELSE NextCall(r, r.idx + 1)

\* time.sleep(BACKGROUND_REFRESH_SECONDS) starts when _prewarm has returned
SleepUntil(t, r) ==
    IF t = "bg" /\ r.pc = "sleep" THEN now + BACKGROUND_REFRESH_SECONDS ELSE bg_wake

\* the keys of a list, and those it holds more than once
Keys(items) == {Key(items[i]) : i \in 1..Len(items)}
Repeated(items) ==
    {Key(items[i]) : i \in {j \in 1..Len(items) :
                               \E k \in 1..Len(items) : k # j /\ Key(items[k]) = Key(items[j])}}

\* _notify_new_items(new_items) is called: the history of what the sink was handed
Handed(new_items) ==
    /\ sent' = sent \cup Keys(new_items)
    /\ resent' = resent \cup (sent \cap Keys(new_items)) \cup Repeated(new_items)

Init ==
    /\ now = 0
    /\ cache_lock = NoThread
    /\ news_cache = EmptyCache
    /\ last_build = 0
    /\ seen_ids = {}
    /\ th = [t \in Threads |-> IF t = "bg" THEN NextCall([Idle EXCEPT !.op = "prewarm"], 1)
                                ELSE Idle]
    /\ bg_wake = 0
    /\ calls = 0
    /\ sent = {}
    /\ resent = {}

----------------------------------------------------------------------------
(* _ensure_fresh *)

BucketAge(cache, cat, t) == IF Present(cache, cat) THEN t - cache[cat].ts ELSE 0 - 1

\* a lock that is never waited for
LockFree_NotChecked == TRUE

\* with _cache_lock: the block is entered only when no thread holds the lock
LockFree == cache_lock = NoThread

\* a hit that renews the bucket's timestamp
EnsureFreshHit_Touch(t) ==
    /\ th[t].pc = "lock"
    /\ LockFree
    /\ ~IsStale(news_cache, th[t].cat, now)
    /\ cache_lock' = t
    /\ news_cache' = [news_cache EXCEPT ![th[t].cat].ts = now]
    /\ th' = [th EXCEPT ![t].pc = "ret", ![t].bucket = news_cache'[th[t].cat],
                        ![t].age = BucketAge(news_cache, th[t].cat, now)]
    /\ UNCHANGED <<now, last_build, seen_ids, bg_wake, calls, sent, resent>>

\* lines 514-516 and 543, the bucket is fresh: the lock is taken and the bucket
\* is what the call returns
EnsureFreshHit(t) ==
    /\ th[t].pc = "lock"
    /\ LockFree
    /\ ~IsStale(news_cache, th[t].cat, now)
    /\ cache_lock' = t
    /\ th' = [th EXCEPT ![t].pc = "ret", ![t].bucket = news_cache[th[t].cat],
                        ![t].age = BucketAge(news_cache, th[t].cat, now)]
    /\ UNCHANGED <<now, news_cache, last_build, seen_ids, bg_wake, calls, sent, resent>>

\* the threads waiting for the lock to ask for the category t refetches
Waiting(t) ==
    {u \in Threads \ {t} : th[u].pc = "lock" /\ th[u].cat = th[t].cat}

\* the locals of t after lines 517-535: what was fetched, with the fallbacks,
\* and the items not seen before
Refetched(t, env) ==
    LET fetched == _fetch_category(th[t].cat, env, now)
        items == WithFallback(th[t].cat, fetched, now)
    IN [th[t] EXCEPT !.items = items, !.new_items = ScanNew(items, seen_ids)[1],
                     !.fetched = TRUE, !.env = env, !.raw = fetched,
                     !.age = BucketAge(news_cache, th[t].cat, now)]

\* lines 514-538, the bucket is absent or too old: the lock is taken, the
\* category fetched, the new items marked seen and, when there are any, handed
\* to _notify_new_items
Refetch(t, envs) ==
    /\ th[t].pc = "lock"
    /\ LockFree
    /\ IsStale(news_cache, th[t].cat, now)
    /\ cache_lock' = t
    /\ \E env \in envs :
          LET r == Refetched(t, env)
          IN /\ th' = [u \in Threads |->
                          IF u = t THEN [r EXCEPT !.pc = "store"]
                          ELSE IF u \in Waiting(t) THEN [th[u] EXCEPT !.behind = TRUE]
                          ELSE th[u]]
             /\ seen_ids' = ScanNew(r.items, seen_ids)[2]
             /\ IF r.new_items # <<>> THEN Handed(r.new_items)
                                      ELSE UNCHANGED <<sent, resent>>
    /\ UNCHANGED <<now, news_cache, last_build, bg_wake, calls>>

EnsureFreshRefetch(t) == Refetch(t, SourceResponses(th[t].cat))

\* the same lines, the sources answering with repeats and over-long lists
EnsureFreshRefetchRich(t) == Refetch(t, RichSourceResponses(th[t].cat))

\* the same lines, the feeds answering with entries of every shape
EnsureFreshRefetchEntries(t) == Refetch(t, EntrySourceResponses(th[t].cat))

\* an _ensure_fresh that stores the bucket before it notifies
EnsureFreshNotifyRaises_StoresFirst(t) ==
    /\ th[t].pc = "lock"
    /\ LockFree
    /\ IsStale(news_cache, th[t].cat, now)
    /\ \E env \in SourceResponses(th[t].cat) :
          LET r == Refetched(t, env)
          IN /\ r.new_items # <<>>
             /\ th' = [u \in Threads |->
                          IF u = t THEN AfterRaise(r)
                          ELSE IF u \in Waiting(t) THEN [th[u] EXCEPT !.behind = TRUE]
                          ELSE th[u]]
             /\ bg_wake' = SleepUntil(t, AfterRaise(r))
             /\ seen_ids' = ScanNew(r.items, seen_ids)[2]
             /\ news_cache' = [news_cache EXCEPT ![th[t].cat] = [ts |-> now, items |-> r.items]]
             /\ Handed(r.new_items)
    /\ UNCHANGED <<now, cache_lock, last_build, calls>>

\* lines 514-538 when _notify_new_items raises (a users.json that is no list of
\* objects, an address EmailMessage rejects): the with block releases the lock
\* and the exception reaches the caller
EnsureFreshNotifyRaises(t) ==
    /\ th[t].pc = "lock"
    /\ LockFree
    /\ IsStale(news_cache, th[t].cat, now)
    /\ \E env \in SourceResponses(th[t].cat) :
          LET r == Refetched(t, env)
          IN /\ r.new_items # <<>>
             /\ th' = [u \in Threads |->
                          IF u = t THEN AfterRaise(r)
                          ELSE IF u \in Waiting(t) THEN [th[u] EXCEPT !.behind = TRUE]
                          ELSE th[u]]
             /\ bg_wake' = SleepUntil(t, AfterRaise(r))
             /\ seen_ids' = ScanNew(r.items, seen_ids)[2]
             /\ Handed(r.new_items)
    /\ UNCHANGED <<now, cache_lock, news_cache, last_build, calls>>

\* The timeout each outbound request is given, in seconds: feedparser.parse(url)
\* is given none, the two requests.get() calls timeout=10.
FeedTimeout == <<>>
OtxTimeout == <<10>>
FeodoTimeout == <<10>>

\* The sources asked for a category whose request has no timeout.  (A request
\* with a timeout that gets no answer raises, which is a failing source.)
UnboundedSources(cat) ==
    {FEEDS(cat)[i] : i \in {j \in 1..Len(FEEDS(cat)) : FeedTimeout = <<>>}}
    \cup (IF OtxNoKey \notin OtxResponses /\ API_QUERIES(cat) # <<>> /\ OtxTimeout = <<>>
          THEN {"otx"} ELSE {})
    \cup (IF cat \in FeodoCategories /\ FeodoTimeout = <<>> THEN {"feodo"} ELSE {})

\* lines 514-517 when a source without timeout never answers: the thread stays
\* in _fetch_category, inside the with block
EnsureFreshHangs(t) ==
    /\ th[t].pc = "lock"
    /\ LockFree
    /\ IsStale(news_cache, th[t].cat, now)
    /\ UnboundedSources(th[t].cat) # {}
    /\ cache_lock' = t
    /\ th' = [th EXCEPT ![t].pc = "fetching", ![t].fetched = TRUE,
                        ![t].age = BucketAge(news_cache, th[t].cat, now)]
    /\ UNCHANGED <<now, news_cache, last_build, seen_ids, bg_wake, calls, sent, resent>>

\* lines 540-541
StoreBucket(t) ==
    /\ th[t].pc = "store"
    /\ LET bucket == [ts |-> now, items |-> th[t].items]
       IN /\ news_cache' = [news_cache EXCEPT ![th[t].cat] = bucket]
          /\ th' = [th EXCEPT ![t].pc = "build", ![t].bucket = bucket, ![t].env = NoEnv]
    /\ UNCHANGED <<now, cache_lock, last_build, seen_ids, bg_wake, calls, sent, resent>>

\* a refetch that leaves _last_build_time_iso as it was
UpdateLastBuild_Skipped(t) ==
    /\ th[t].pc = "build"
    /\ th' = [th EXCEPT ![t].pc = "ret"]
    /\ UNCHANGED <<now, cache_lock, news_cache, last_build, seen_ids, bg_wake, calls,
                   sent, resent>>

\* line 542
UpdateLastBuild(t) ==
    /\ th[t].pc = "build"
    /\ last_build' = now
    /\ th' = [th EXCEPT ![t].pc = "ret"]
    /\ UNCHANGED <<now, cache_lock, news_cache, seen_ids, bg_wake, calls, sent, resent>>

\* line 543: the lock is released and the bucket returned to the caller
Return(t) ==
    /\ th[t].pc = "ret"
    /\ cache_lock' = NoThread
    /\ th' = [th EXCEPT ![t] = AfterReturn(th[t], th[t].bucket)]
    /\ bg_wake' = SleepUntil(t, AfterReturn(th[t], th[t].bucket))
    /\ UNCHANGED <<now, news_cache, last_build, seen_ids, calls, sent, resent>>

----------------------------------------------------------------------------
(* Callers *)

\* GET /api/news
StartNews(t) ==
    /\ th[t].pc = "idle"
    /\ calls < MaxCalls
    /\ th' = [th EXCEPT ![t] = NextCall([Idle EXCEPT !.op = "news"], 1)]
    /\ calls' = calls + 1
    /\ UNCHANGED <<now, cache_lock, news_cache, last_build, seen_ids, bg_wake, sent, resent>>

\* an api_news that cuts the merged list to limit before sorting it
NewsFinish_CutsFirst(t) ==
    /\ th[t].pc = "news_fin"
    /\ \E limit \in Limits :
          th' = [th EXCEPT ![t] =
                   [Idle EXCEPT !.result = [kind |-> "news",
                                            items |-> SortDesc(Take(th[t].merged, limit)),
                                            updated |-> last_build]]]
    /\ UNCHANGED <<now, cache_lock, news_cache, last_build, seen_ids, bg_wake, calls,
                   sent, resent>>

\* an api_news whose merged list is the first bucket's own list, extended and
\* sorted where it stands
NewsFinish_SortsInPlace(t) ==
    /\ th[t].pc = "news_fin"
    /\ \E limit \in Limits :
          th' = [th EXCEPT ![t] =
                   [Idle EXCEPT !.result = [kind |-> "news",
                                            items |-> Take(SortDesc(th[t].merged), limit),
                                            updated |-> last_build]]]
    /\ news_cache' = IF Present(news_cache, CATEGORIES[1])
                      THEN [news_cache EXCEPT ![CATEGORIES[1]].items = SortDesc(th[t].merged)]
                      ELSE news_cache
    /\ UNCHANGED <<now, cache_lock, last_build, seen_ids, bg_wake, calls, sent, resent>>

\* an api_news that returns the timestamp of the module load
NewsFinish_UpdatedReadFirst(t) ==
    /\ th[t].pc = "news_fin"
    /\ \E limit \in Limits :
          th' = [th EXCEPT ![t] =
                   [Idle EXCEPT !.result = [kind |-> "news",
                                            items |-> Take(SortDesc(th[t].merged), limit),
                                            updated |-> 0]]]
    /\ UNCHANGED <<now, cache_lock, news_cache, last_build, seen_ids, bg_wake, calls,
                   sent, resent>>

\* lines 576-578: limit is the request's parameter, first used here;
\* _last_build_time_iso is read without the lock
NewsFinish(t) ==
    /\ th[t].pc = "news_fin"
    /\ \E limit \in Limits :
          th' = [th EXCEPT ![t] =
                   [Idle EXCEPT !.result = [kind |-> "news",
                                            items |-> Take(SortDesc(th[t].merged), limit),
                                            updated |-> last_build]]]
    /\ UNCHANGED <<now, cache_lock, news_cache, last_build, seen_ids, bg_wake, calls,
                   sent, resent>>

\* POST /api/refresh
StartRefresh(t) ==
    /\ th[t].pc = "idle"
    /\ calls < MaxCalls
    /\ th' = [th EXCEPT ![t] = [Idle EXCEPT !.op = "refresh", !.pc = "clear_lock",
                                            !.start = now]]
    /\ calls' = calls + 1
    /\ UNCHANGED <<now, cache_lock, news_cache, last_build, seen_ids, bg_wake, sent, resent>>

\* an api_refresh that clears the cache without taking the lock
RefreshAcquire_NoLock(t) ==
    /\ th[t].pc = "clear_lock"
    /\ th' = [th EXCEPT ![t].pc = "clear"]
    /\ UNCHANGED <<now, cache_lock, news_cache, last_build, seen_ids, bg_wake, calls,
                   sent, resent>>

\* line 583
RefreshAcquire(t) ==
    /\ th[t].pc = "clear_lock"
    /\ LockFree
    /\ cache_lock' = t
    /\ th' = [th EXCEPT ![t].pc = "clear"]
    /\ UNCHANGED <<now, news_cache, last_build, seen_ids, bg_wake, calls, sent, resent>>

\* line 584 and the end of the with block, then _prewarm begins
RefreshClear(t) ==
    /\ th[t].pc = "clear"
    /\ news_cache' = Cleared(news_cache)
    /\ cache_lock' = NoThread
    /\ th' = [th EXCEPT ![t] = NextCall(th[t], 1)]
    /\ UNCHANGED <<now, last_build, seen_ids, bg_wake, calls, sent, resent>>

\* line 586
RefreshFinish(t) ==
    /\ th[t].pc = "refresh_fin"
    /\ th' = [th EXCEPT ![t] =
                [Idle EXCEPT !.result = [kind |-> "refresh", items |-> <<>>,
                                         updated |-> last_build]]]
    /\ UNCHANGED <<now, cache_lock, news_cache, last_build, seen_ids, bg_wake, calls,
                   sent, resent>>

\* a call _ensure_fresh(c) from outside the two endpoints, with any identifier
StartDirect(t) ==
    /\ th[t].pc = "idle"
    /\ calls < MaxCalls
    /\ \E c \in CategoryIds :
          th' = [th EXCEPT ![t] = Call([Idle EXCEPT !.op = "direct"], c)]
    /\ calls' = calls + 1
    /\ UNCHANGED <<now, cache_lock, news_cache, last_build, seen_ids, bg_wake, sent, resent>>

\* _background_refresher: time.sleep() is over, the next _prewarm begins
BgWake ==
    /\ th["bg"].pc = "sleep"
    /\ now >= bg_wake
    /\ th' = [th EXCEPT !["bg"] = NextCall(th["bg"], 1)]
    /\ UNCHANGED <<now, cache_lock, news_cache, last_build, seen_ids, bg_wake, calls,
                   sent, resent>>

\* time passes
Tick ==
    /\ \E d \in ClockSteps :
          /\ now + d <= MaxTime
          /\ now' = now + d
    /\ UNCHANGED <<cache_lock, news_cache, last_build, seen_ids, th, bg_wake, calls,
                   sent, resent>>

Next ==
    \/ \E t \in Threads :
          \/ EnsureFreshHit(t) \/ EnsureFreshRefetch(t) \/ EnsureFreshNotifyRaises(t)
          \/ StoreBucket(t) \/ UpdateLastBuild(t) \/ Return(t)
    \/ \E t \in RequestThreads :
          \/ StartNews(t) \/ NewsFinish(t)
          \/ StartRefresh(t) \/ RefreshAcquire(t) \/ RefreshClear(t) \/ RefreshFinish(t)
          \/ StartDirect(t)
    \/ BgWake
    \/ Tick

Spec == Init /\ [][Next]_vars

\* The background refresher alone, its sources answering with repeats and
\* over-long lists.
NextRich ==
    \/ EnsureFreshHit("bg") \/ EnsureFreshRefetchRich("bg")
    \/ StoreBucket("bg") \/ UpdateLastBuild("bg") \/ Return("bg")
    \/ BgWake
    \/ Tick

SpecRich == Init /\ [][NextRich]_vars

\* The background refresher alone, its feeds answering with entries of every
\* shape.
NextEntries ==
    \/ EnsureFreshHit("bg") \/ EnsureFreshRefetchEntries("bg")
    \/ StoreBucket("bg") \/ UpdateLastBuild("bg") \/ Return("bg")
    \/ BgWake
    \/ Tick

SpecEntries == Init /\ [][NextEntries]_vars

\* The steps of a thread inside a handler.  A thread that can run does run
\* (the operating system schedules every runnable thread), and time.sleep()
\* ends; requests need not arrive and the clock of the model need not advance.
ThreadStep(t) ==
    \/ EnsureFreshHit(t) \/ EnsureFreshRefetch(t) \/ EnsureFreshNotifyRaises(t)
    \/ StoreBucket(t) \/ UpdateLastBuild(t) \/ Return(t)
    \/ (t \in RequestThreads /\ (NewsFinish(t) \/ RefreshAcquire(t) \/ RefreshClear(t)
                                   \/ RefreshFinish(t)))
    \/ (t = "bg" /\ BgWake)

\* ThreadStep(t) can be taken: the thread is inside a handler and is not
\* waiting for a lock another thread holds, nor sleeping
Runnable(t) ==
    \/ th[t].pc \in {"store", "build", "ret", "clear", "news_fin", "refresh_fin"}
    \/ th[t].pc \in {"lock", "clear_lock"} /\ LockFree
    \/ t = "bg" /\ th[t].pc = "sleep" /\ now >= bg_wake

\* ThreadStep(t) is taken: the thread, inside a handler, moves on
Stepped(t) ==
    /\ th[t].pc # "idle"
    /\ th'[t].pc # th[t].pc \/ th'[t].idx # th[t].idx

\* Runnable and Stepped say when ThreadStep is enabled and when it is taken
StepsAreThreadSteps ==
    [][\A t \in Threads :
          /\ Stepped(t) <=> ThreadStep(t)
          /\ ThreadStep(t) => Runnable(t)]_vars

\* WF_vars(ThreadStep(t)), with ENABLED <<ThreadStep(t)>>_vars written as
\* Runnable(t) and <<ThreadStep(t)>>_vars as <<Stepped(t)>>_vars
FairSpec ==
    Spec /\ \A t \in Threads : []<>(~Runnable(t)) \/ []<><<Stepped(t)>>_vars

\* the program when a source may also never answer
NextHang ==
    \/ Next
    \/ \E t \in Threads : EnsureFreshHangs(t)

SpecHang == Init /\ [][NextHang]_vars

----------------------------------------------------------------------------
(* Properties *)

\* the positions inside "with _cache_lock:" of _ensure_fresh and api_refresh
InCritical(t) == th[t].pc \in {"store", "build", "ret", "clear"}

\* the positions of _ensure_fresh after the staleness test
Tested(t) == th[t].pc \in {"store", "build", "ret"}

HasCurated(cat) == _fallback_items(cat, 0) # <<>>

IsPlaceholder(items, cat) ==
    /\ Len(items) = 1
    /\ items[1].link = <<"#">>
    /\ cat \in Range(items[1].title)

\* C1: every bucket in the cache has a non-empty items list, and so has the
\* bucket every _ensure_fresh call is about to return or has returned, for
\* configured and unconfigured category identifiers alike.
C1_BucketsNonEmpty ==
    /\ \A c \in CategoryIds : Present(news_cache, c) => news_cache[c].items # <<>>
    /\ \A t \in Threads :
          /\ th[t].pc = "ret" => th[t].bucket.items # <<>>
          /\ th[t].result.kind = "bucket" => th[t].result.items # <<>>

\* _ensure_fresh on the unconfigured identifier has returned its bucket
C1_Witness ==
    \E t \in Threads :
        /\ th[t].result.kind = "bucket"
        /\ Present(news_cache, UnknownCategory)
        /\ th[t].result.items = news_cache[UnknownCategory].items

\* C2: an _ensure_fresh call fetches exactly when the bucket is absent or its
\* age now - fetched_at exceeds the TTL of 600 s; at an age of at most the TTL
\* (the TTL itself included) the call does not fetch.
C2_FetchIffStale ==
    \A t \in Threads :
        Tested(t) => (th[t].fetched <=> th[t].age \notin 0..CACHE_TTL_SECONDS)

\* a call found a bucket exactly TTL old and did not fetch
C2_Witness ==
    \E t \in Threads :
        th[t].pc = "ret" /\ th[t].age = CACHE_TTL_SECONDS /\ ~th[t].fetched

\* C3 (as amended): at most one thread at a time is inside the critical
\* section, and it is the holder of the lock; a thread that waited while
\* another one refetched its category fetches again only when, at its own
\* turn, the bucket is absent or older than the TTL, and otherwise returns the
\* bucket in the cache.
C3_OneInsideAndReuse ==
    /\ \A t, u \in Threads : InCritical(t) /\ InCritical(u) => t = u
    /\ \A t \in Threads : InCritical(t) <=> cache_lock = t
    /\ \A t \in Threads :
          th[t].behind /\ Tested(t) =>
             IF th[t].fetched THEN th[t].age \notin 0..CACHE_TTL_SECONDS
             ELSE Present(news_cache, th[t].cat) /\ th[t].bucket = news_cache[th[t].cat]

\* a thread that waited behind a refetch returns the stored bucket unfetched
C3_Witness ==
    \E t \in Threads :
        th[t].behind /\ th[t].pc = "ret" /\ ~th[t].fetched /\ cache_lock = t

\* C3 (as stated): of the threads calling _ensure_fresh concurrently on the
\* same absent or stale category exactly one fetches; the others, which waited
\* for the lock meanwhile, do not fetch.
C3_OnlyOneFetches ==
    \A t \in Threads : th[t].behind /\ Tested(t) => ~th[t].fetched

\* C4: no (title, link) key is handed to _notify_new_items more than once.
C4_HandedAtMostOnce == resent = {}

\* a refetch returned an item that was handed over before, and reports nothing
C4_Witness ==
    \E t \in Threads :
        /\ th[t].pc = "store"
        /\ th[t].new_items = <<>>
        /\ Keys(th[t].items) \cap sent # {}

C6_SeenGrows ==
    [][/\ seen_ids \subseteq seen_ids'
       /\ \A t \in Threads :
             (th[t].pc = "clear" /\ th'[t].pc # "clear") =>
                 seen_ids' = seen_ids /\ news_cache' = EmptyCache]_vars

\* api_refresh has cleared a cache while keys are marked seen
C6_Witness ==
    \E t \in Threads :
        /\ th[t].op = "refresh" /\ th[t].pc = "lock" /\ th[t].idx = 1
        /\ news_cache = EmptyCache
        /\ seen_ids # {}

\* C7: an _ensure_fresh call that finds a bucket at most TTL old returns that
\* bucket, and neither its test nor its return changes the cache, _seen_ids,
\* _last_build_time_iso or what the sink was handed; it fetches nothing.
C7_HitChangesNothing ==
    [][\A t \in Threads :
          /\ (/\ th[t].pc = "lock" /\ th'[t].pc # "lock"
              /\ Present(news_cache, th[t].cat)
              /\ now - news_cache[th[t].cat].ts <= CACHE_TTL_SECONDS) =>
                 /\ th'[t].pc = "ret"
                 /\ th'[t].bucket = news_cache[th[t].cat]
                 /\ ~th'[t].fetched /\ th'[t].new_items = <<>>
                 /\ UNCHANGED <<news_cache, seen_ids, last_build, sent, resent>>
          /\ (th[t].pc = "ret" /\ ~th[t].fetched /\ th'[t].pc # "ret") =>
                 /\ UNCHANGED <<news_cache, seen_ids, last_build, sent, resent>>
                 /\ th[t].bucket = news_cache[th[t].cat]
                 /\ th[t].op = "direct" =>
                       th'[t].result = [kind |-> "bucket",
                                        items |-> news_cache[th[t].cat].items,
                                        updated |-> news_cache[th[t].cat].ts]]_vars

\* api_news is about to get back, unfetched, a bucket stored before the clock
\* moved, while _last_build_time_iso and the sink's history are as they were
C7_Witness ==
    \E t \in Threads :
        /\ th[t].pc = "ret" /\ th[t].op = "news"
        /\ ~th[t].fetched /\ th[t].age > 0
        /\ th[t].bucket = news_cache[th[t].cat]
        /\ last_build = 0

\* C8: after a refetch the new bucket holds the fetched list when it is not
\* empty; else the curated fallback items of the category when there are any;
\* else exactly one placeholder whose link is "#" and whose title names the
\* category.
C8_FallbackChain ==
    \A t \in Threads :
        (Tested(t) /\ th[t].fetched) =>
            LET r == th[t]
            IN /\ r.raw # <<>> => r.items = r.raw
               /\ (r.raw = <<>> /\ HasCurated(r.cat)) =>
                     r.items = _fallback_items(r.cat, r.items[1].published)
               /\ (r.raw = <<>> /\ ~HasCurated(r.cat)) => IsPlaceholder(r.items, r.cat)
               /\ r.pc \in {"build", "ret"} => news_cache[r.cat].items = r.items

\* the placeholder has been stored for a category without curated content
C8_Witness ==
    \E t \in Threads :
        /\ th[t].pc = "build"
        /\ ~HasCurated(th[t].cat)
        /\ IsPlaceholder(news_cache[th[t].cat].items, th[t].cat)

\* every source asked for the category failed
AllSourcesFail(cat, env) ==
    /\ \A i \in 1..Len(env.feeds) : ~env.feeds[i].ok
    /\ env.otx.key => ~env.otx.ok
    /\ cat \in FeodoCategories => ~env.feodo.ok

\* C9: a failing source does not make the fetch fail: the items of every feed
\* that answered are in what _fetch_category returned; when every source failed
\* it returned the empty list and _ensure_fresh goes on with the fallback
\* content; a call fails only where the sink was handed something.
C9_FailingSourcesSkipped ==
    /\ \A t \in Threads :
          th[t].pc = "store" =>
             LET r == th[t]
             IN /\ \A i \in 1..Len(r.env.feeds) :
                      r.env.feeds[i].ok => Keys(FeedItems(r.env.feeds[i], now)) \subseteq Keys(r.raw)
                /\ AllSourcesFail(r.cat, r.env) =>
                      /\ r.raw = <<>>
                      /\ \/ /\ HasCurated(r.cat)
                            /\ r.items = _fallback_items(r.cat, r.items[1].published)
                         \/ IsPlaceholder(r.items, r.cat)
    /\ \A t \in Threads : th[t].result.kind = "error" => sent # {}

\* the first feed of a category failed and the second one contributed
C9_Witness ==
    \E t \in Threads :
        /\ th[t].pc = "store"
        /\ Len(th[t].env.feeds) = 2
        /\ ~th[t].env.feeds[1].ok /\ th[t].env.feeds[2].ok
        /\ th[t].raw # <<>>

\* the positions of a list whose key is not in seen, whose link is neither ""
\* nor "#", and whose key occurs at no earlier position
NewPositions(items, seen) ==
    {i \in 1..Len(items) :
        /\ Key(items[i]) \notin seen
        /\ items[i].link # <<>> /\ items[i].link # <<"#">>
        /\ \A j \in 1..(i - 1) : Key(items[j]) # Key(items[i])}

\* the subsequence of a list at a set of positions
RECURSIVE SubsequenceAt(_, _, _)
SubsequenceAt(items, I, i) ==
    IF i > Len(items) THEN <<>>
    ELSE (IF i \in I THEN <<items[i]>> ELSE <<>>) \o SubsequenceAt(items, I, i + 1)

\* C10: a refetch hands the sink exactly the subsequence of the new list whose
\* key was not in _seen_ids before and whose link is neither "" nor "#", each
\* key once; _seen_ids becomes the old set plus those keys; in every step the
\* keys added to _seen_ids are those handed over, and _seen_ids never holds a
\* key whose link is "" or "#".
C10_NewItemsExact ==
    [][/\ \A t \in Threads :
             (th[t].pc = "lock" /\ th'[t].pc = "store") =>
                 LET expected == SubsequenceAt(th'[t].items,
                                               NewPositions(th'[t].items, seen_ids), 1)
                 IN /\ th'[t].new_items = expected
                    /\ seen_ids' = seen_ids \cup Keys(expected)
                    /\ sent' = sent \cup Keys(expected)
       /\ seen_ids' \ seen_ids = sent' \ sent
       /\ \A k \in seen_ids' : k[2] # <<>> /\ k[2] # <<"#">>]_vars

\* a refetch found new items and left out others of its list
C10_Witness ==
    \E t \in Threads :
        /\ th[t].pc = "store"
        /\ th[t].new_items # <<>>
        /\ Len(th[t].new_items) < Len(th[t].items)
        /\ Keys(th[t].new_items) \subseteq seen_ids

\* C11 (as amended): _ensure_fresh on an unconfigured category does not raise:
\* the fetcher returns the empty list for it, and the bucket made, stored and
\* returned holds exactly one placeholder item; nothing is handed to the sink.
C11_UnknownIsPlaceholder ==
    [][\A t \in Threads :
          /\ (th[t].cat = UnknownCategory /\ th[t].pc = "lock" /\ th'[t].pc # "lock") =>
                /\ th'[t].pc \in {"store", "ret"}
                /\ th'[t].pc = "store" =>
                      /\ th'[t].raw = <<>>
                      /\ IsPlaceholder(th'[t].items, UnknownCategory)
                      /\ th'[t].new_items = <<>>
                /\ th'[t].pc = "ret" =>
                      IsPlaceholder(th'[t].bucket.items, UnknownCategory)
                /\ UNCHANGED <<sent, seen_ids>>
          /\ (th[t].cat = UnknownCategory /\ th[t].pc = "ret" /\ th'[t].pc # "ret") =>
                /\ th'[t].result.kind = "bucket"
                /\ Len(th'[t].result.items) = 1]_vars

\* _ensure_fresh on the unconfigured category is about to return the bucket it
\* stored, whose only item is the placeholder
C11_Witness ==
    \E t \in Threads :
        /\ th[t].pc = "ret" /\ th[t].cat = UnknownCategory /\ th[t].fetched
        /\ IsPlaceholder(th[t].bucket.items, UnknownCategory)
        /\ news_cache[UnknownCategory] = th[t].bucket

\* C11 (as stated): the result for an unconfigured category is an empty set,
\* of count 0.
C11_UnknownIsEmpty ==
    \A t \in Threads :
        (th[t].pc = "ret" /\ th[t].cat = UnknownCategory) => Len(th[t].bucket.items) = 0

\* C12: the background refresher never leaves its loop; every _prewarm of it
\* calls _ensure_fresh for the categories one after the other, and a call that
\* raises is followed by the call for the next category (or by the sleep after
\* the last one) with the lock released; while it waits or sleeps it does not
\* hold the lock.
C12_RefresherGoesOn ==
    [][LET b == th["bg"]
           c == th'["bg"]
       IN /\ c.op = "prewarm"
          /\ c.pc \in {"lock", "store", "build", "ret", "sleep"}
          /\ c.pc = "sleep" <=> c.idx = Len(CATEGORIES) + 1
          /\ c.pc # "sleep" => c.cat = CATEGORIES[c.idx]
          /\ c.pc \in {"lock", "sleep"} => cache_lock' # "bg"
          /\ c.idx # b.idx => c.idx = (IF b.pc = "sleep" THEN 1 ELSE b.idx + 1)
          \* the call raised
          /\ (b.pc = "lock" /\ c.idx # b.idx) =>
                /\ c.idx = b.idx + 1
                /\ cache_lock' # "bg"]_vars

\* before any request was made, the refresher asks for the second category
\* although its call for the first one raised and stored nothing
C12_Witness ==
    /\ calls = 0
    /\ th["bg"].pc = "lock" /\ th["bg"].idx = 2
    /\ ~Present(news_cache, CATEGORIES[1])
    /\ seen_ids # {}
    /\ cache_lock = NoThread

\* C14: every outbound fetch of a refresh has a timeout, so no thread stays
\* for ever in a fetch, holding the cache lock.
C14_NoFetchWithoutTimeout ==
    \A t \in Threads : ~(th[t].pc = "fetching" /\ cache_lock = t)

\* What does hold of forward progress when every source returns or fails:
\* every call of api_news, api_refresh and _ensure_fresh ends, and every
\* _prewarm of the background refresher reaches its sleep; a call ends with
\* its response or, for _ensure_fresh and api_news, with the exception of the
\* notification sink, never so api_refresh; the lock, once taken, is
\* released; and no thread waits for the lock while holding it.
C13_ForwardProgress ==
    /\ [](\A t \in Threads : th[t].pc \in {"lock", "clear_lock"} => cache_lock # t)
    /\ [](\A t \in Threads : th[t].result.kind = "error" => sent # {})
    /\ \A t \in RequestThreads : (th[t].pc # "idle") ~> (th[t].pc = "idle")
    /\ \A t \in RequestThreads :
          (th[t].op = "refresh") ~> (th[t].pc = "idle" /\ th[t].result.kind = "refresh")
    /\ (th["bg"].pc # "sleep") ~> (th["bg"].pc = "sleep")
    /\ (cache_lock # NoThread) ~> (cache_lock = NoThread)

\* api_news, which waited for the lock behind the refresher, has returned its
\* response
C13_Witness ==
    \E t \in RequestThreads :
        /\ th[t].pc = "idle" /\ th[t].result.kind = "news"
        /\ th[t].result.items # <<>>
        /\ th["bg"].pc = "sleep"
        /\ cache_lock = NoThread

\* C13: with every source returning or failing, every call of _ensure_fresh,
\* api_news and api_refresh returns a response: none ends with an exception.
C13_EveryCallAnswers ==
    \A t \in Threads : th[t].result.kind # "error"

\* the number of positions of s whose item is it
Count(s, it) == Cardinality({i \in 1..Len(s) : s[i] = it})

\* the number of items of s published after p
Newer(s, p) == Cardinality({i \in 1..Len(s) : s[i].published > p})

Min(a, b) == IF a <= b THEN a ELSE b

Descending(s) == \A i \in 1..Len(s) - 1 : s[i].published >= s[i + 1].published

\* C15: the list api_news returns has exactly min(limit, total) items, where
\* total is the length of the concatenation of all categories' bucket items;
\* they are items of that concatenation, the greatest by published, and stand
\* in descending order of published.
C15_NewsIsTopLimit ==
    [][\A t \in RequestThreads :
          (th[t].pc = "news_fin" /\ th'[t].pc = "idle") =>
              LET merged == th[t].merged
                  res == th'[t].result.items
              IN /\ th'[t].result.kind = "news"
                 /\ \E limit \in Limits : Len(res) = Min(limit, Len(merged))
                 /\ \A i \in 1..Len(res) : Count(res, res[i]) <= Count(merged, res[i])
                 /\ \A i \in 1..Len(merged) :
                        Newer(res, merged[i].published)
                            = Min(Len(res), Newer(merged, merged[i].published))
                 /\ Descending(res)]_vars

\* api_news returned two items of more than two, the second of them not of
\* the first category
C15_Witness ==
    \E t \in RequestThreads :
        /\ th[t].pc = "idle" /\ th[t].result.kind = "news"
        /\ Len(th[t].result.items) = 2
        /\ \A c \in Range(CATEGORIES) : Present(news_cache, c)
        /\ Len(news_cache[CATEGORIES[1]].items) >= 2
        /\ th[t].result.items[2] \notin Range(news_cache[CATEGORIES[1]].items)
        /\ th[t].result.items[2] \in Range(news_cache[CATEGORIES[2]].items)

\* it is the first item of s with its key
FirstWithKey(s, it) ==
    \E j \in 1..Len(s) : s[j] = it /\ \A k \in 1..j - 1 : Key(s[k]) # Key(it)

\* C16: the list _fetch_category returns holds no two items with the same
\* (title, link), and each of its items is the first item with its key among
\* what the sources delivered, taken in the order feeds (as configured), OTX,
\* Feodo; a key is left out only by the cut to 60 items.
C16_FirstOfEachKey ==
    [][\A t \in Threads :
          (th[t].pc = "lock" /\ th'[t].pc = "store") =>
              \A delivered \in {CollectItems(th[t].cat, th'[t].env, now)} :
              \A raw \in {th'[t].raw} :
                 /\ \A i, j \in 1..Len(raw) : Key(raw[i]) = Key(raw[j]) => i = j
                 /\ \A i \in 1..Len(raw) : FirstWithKey(delivered, raw[i])
                 /\ Len(raw) < CATEGORY_ITEM_CAP => Keys(raw) = Keys(delivered)]_vars

\* a fetch whose feed delivered the same title and link twice, under two
\* texts, kept the first text and dropped an item
C16_Witness ==
    \E t \in Threads :
        /\ th[t].pc = "store"
        /\ th[t].env.feeds # <<>> /\ th[t].env.feeds[1] = FeedRepeats
        /\ Len(th[t].raw) < Len(CollectItems(th[t].cat, th[t].env, now))
        /\ \E i \in 1..Len(th[t].raw) :
              /\ Key(th[t].raw[i]) = Key(_normalize_entry(RawDated, now))
              /\ th[t].raw[i] = _normalize_entry(RawDated, now)

\* C17: in every list _fetch_category returned, in the items of every bucket
\* of the cache and in every list api_news returned, an item that precedes
\* another is published no earlier.
C17_NewestFirst ==
    /\ \A t \in Threads : Descending(th[t].raw) /\ Descending(th[t].result.items)
    /\ \A c \in CategoryIds : Descending(news_cache[c].items)

\* a bucket whose undated entry, delivered after the dated one, stands before
\* it, and a list of api_news that falls from its first item to its last
C17_Witness ==
    /\ \E c \in CategoryIds :
          /\ Len(news_cache[c].items) = 2
          /\ news_cache[c].items[1] = _normalize_entry(RawUndated, news_cache[c].ts)
          /\ news_cache[c].items[2] = _normalize_entry(RawDated, news_cache[c].ts)
          /\ news_cache[c].items[1].published > news_cache[c].items[2].published
    /\ \E t \in RequestThreads :
          /\ th[t].result.kind = "news"
          /\ Len(th[t].result.items) > 2
          /\ th[t].result.items[1].published
                 > th[t].result.items[Len(th[t].result.items)].published

\* C18: _fetch_category returns at most 60 items, and every bucket of the
\* cache, whether of fetched items, of curated items or of the placeholder,
\* holds at most 60 items.
C18_AtMostSixty ==
    /\ \A t \in Threads : Len(th[t].raw) <= 60
    /\ \A c \in CategoryIds : Len(news_cache[c].items) <= 60

\* the sources delivered more than 60 items under different keys, and the
\* bucket stored holds 60
C18_Witness ==
    \E t \in Threads :
        /\ th[t].pc = "build"
        /\ Len(th[t].raw) = 60
        /\ Len(news_cache[th[t].cat].items) = 60
        /\ Cardinality(Keys(th[t].raw)) = 60

\* C19: the entry of a category in the cache changes in two ways only: the
\* thread that refetched the category puts a new bucket in its place, holding
\* the time of the store and the list that thread built, or api_refresh's
\* clear removes it; no other step, the merging and sorting of api_news
\* included, changes a stored bucket's fetched_at or items.
C19_WholeBucketReplacement ==
    [][\A c \in CategoryIds :
          \/ news_cache'[c] = news_cache[c]
          \/ \E t \in Threads :
                /\ th[t].pc = "store" /\ th'[t].pc = "build" /\ th[t].cat = c
                /\ news_cache'[c] = [ts |-> now, items |-> th[t].items]
          \/ \E t \in RequestThreads :
                /\ th[t].pc = "clear" /\ th'[t].pc # "clear"
                /\ news_cache'[c] = NoBucket]_vars

\* api_news found a bucket too old and has put a new one in its place
C19_Witness ==
    \E t \in RequestThreads :
        /\ th[t].op = "news" /\ th[t].pc = "build"
        /\ th[t].age > CACHE_TTL_SECONDS
        /\ news_cache[th[t].cat] = th[t].bucket
        /\ news_cache[th[t].cat].ts > 0

\* C20: every change of the cache mapping (a bucket inserted, a bucket
\* replaced, the clear) and every change of the seen set is made by a thread
\* that holds the cache lock: one that held it before the step, or one that
\* waited for it, found it free and took it in the step.
C20_MutationsUnderLock ==
    [][(news_cache' # news_cache \/ seen_ids' # seen_ids) =>
          \E t \in Threads :
             /\ th'[t].pc # th[t].pc \/ th'[t].idx # th[t].idx
             /\ \/ cache_lock = t
                \/ cache_lock = NoThread /\ th[t].pc = "lock"]_vars

\* a thread holding the lock has marked items seen and stored a bucket
\* while another thread waits for the lock
C20_Witness ==
    \E t \in Threads :
        /\ cache_lock = t /\ th[t].pc = "build"
        /\ news_cache[th[t].cat] = th[t].bucket
        /\ seen_ids # {}
        /\ \E u \in Threads \ {t} : th[u].pc \in {"lock", "clear_lock"}

\* the entries of the feeds that answered, up to 30 of each
Delivered(env) ==
    UNION {{env.feeds[i].entries[k] :
               k \in 1..Min(Len(env.feeds[i].entries), FEED_ENTRY_CAP)} :
           i \in {j \in 1..Len(env.feeds) : env.feeds[j].ok}}

\* C21: no exception escapes the normalization of a record: whatever field
\* fails, the record still yields an item, and so do the records that follow
\* it in its feed; every entry a feed delivered has its item in the list
\* _fetch_category returns.
C21_EveryRecordYieldsItem ==
    \A t \in Threads :
        th[t].pc = "store" =>
            \A e \in Delivered(th[t].env) :
                \E i \in 1..Len(th[t].raw) :
                    /\ th[t].raw[i].title = Strip(e.title)
                    /\ th[t].raw[i].link = e.link

Titles(items) == {items[i].title : i \in 1..Len(items)}

\* C22: to one _fetch_category call no source contributes more than 30 records,
\* however many it returns: not a feed URL, not the OTX search, not the Feodo
\* blocklist.
C22_PerSourceCap ==
    \A t \in Threads :
        th[t].pc = "store" =>
            /\ \A i \in 1..Len(th[t].env.feeds) :
                   Len(FeedItems(th[t].env.feeds[i], now)) <= 30
            /\ Len(_fetch_otx_for_category(th[t].cat, th[t].env.otx, now)) <= 30
            /\ Len(_fetch_feodo_iocs(th[t].env.feodo, now)) <= 30
            /\ Cardinality({i \in 1..Len(th[t].raw) : th[t].raw[i].source = <<"staff">>})
                   <= 30 * Len(th[t].env.feeds)

\* a feed returned 31 entries and the OTX search 26 pulses: the list fetched,
\* which the cut to 60 left whole, holds the 30th entry and not the 31st, the
\* 25th pulse and not the 26th
C22_Witness ==
    \E t \in Threads :
        /\ th[t].pc = "store"
        /\ th[t].env.feeds # <<>> /\ th[t].env.feeds[1] = FeedLong
        /\ th[t].env.otx = OtxLong
        /\ Len(th[t].raw) < CATEGORY_ITEM_CAP
        /\ <<"Story ", "30">> \in Titles(th[t].raw)
        /\ <<"Story ", "31">> \notin Titles(th[t].raw)
        /\ <<"Pulse ", "25">> \in Titles(th[t].raw)
        /\ <<"Pulse ", "26">> \notin Titles(th[t].raw)

\* it is the item the field mapping gives for the raw entry e at time t; a
\* missing field of e is <<>>, which is also the empty string
Mapped(e, it, t) ==
    /\ it.title = Strip(e.title)
    /\ it.link = e.link
    /\ it.summary = Strip(IF e.summary # <<>> THEN e.summary ELSE e.description)
    /\ it.source = (IF e.source_title # <<>> THEN e.source_title ELSE e.author)
    /\ it.published = (IF e.published_parsed # <<>> THEN e.published_parsed[1]
                       ELSE IF e.updated_parsed # <<>> THEN e.updated_parsed[1]
                       ELSE t)

\* C23: every raw record is mapped field by field: title is the raw title
\* trimmed ("" when missing), link the raw link or "", summary the raw summary,
\* else the raw description, else "", trimmed, source the nested source title,
\* else the author, else "", published the parsed publish time, else the
\* parsed update time, else the time of the fetch; and the entries of a feed
\* yield one item each, a dated and an undated entry two items.
C23_FieldMapping ==
    [][\A t \in Threads :
          (th[t].pc = "lock" /\ th'[t].pc = "store") =>
              \A raw \in {th'[t].raw} :
                 /\ \A i \in 1..Len(th'[t].env.feeds) :
                        th'[t].env.feeds[i] = FeedFields =>
                            \A k \in 1..Len(FeedFields.entries) :
                                \E j \in 1..Len(raw) :
                                    Mapped(FeedFields.entries[k], raw[j], now)
                 /\ \A j \in 1..Len(raw) :
                        \E e \in Delivered(th'[t].env) : Mapped(e, raw[j], now)
                 /\ FeedBroken \notin Range(th'[t].env.feeds) =>
                        Len(raw) = Cardinality({<<Strip(e.title), e.link>> :
                                                   e \in Delivered(th'[t].env)})]_vars

\* a feed delivered entries of every shape, and each has its item in the
\* bucket: the undated ones carry the time of the fetch, the blank summary
\* has not given way to the description
C23_Witness ==
    \E t \in Threads :
        /\ th[t].pc = "build"
        /\ \A items \in {news_cache[th[t].cat].items} :
              /\ Len(items) = Len(FeedFields.entries)
              /\ \E j \in 1..Len(items) :
                    /\ items[j].title = <<"Blank">> /\ items[j].summary = <<>>
                    /\ items[j].published = 8
              /\ \E j \in 1..Len(items) :
                    /\ items[j].title = <<>> /\ items[j].link = <<>>
                    /\ items[j].published = news_cache[th[t].cat].ts
              /\ \E j \in 1..Len(items) :
                    /\ items[j].title = <<"Advisory">> /\ items[j].summary = <<"sum">>
                    /\ items[j].source = <<"Wire">> /\ items[j].published = 3

\* the thread that stored the bucket of category c and has not yet updated
\* _last_build_time_iso (between lines 541 and 542)
Storing(c) ==
    {t \in Threads : th[t].pc = "build" /\ th[t].cat = c /\ cache_lock = t}

\* C24 (as amended): a refetch stores a bucket whose fetched_at is the time of
\* the store and next sets the last-build timestamp to the time it is then;
\* the last-build timestamp never decreases; and it is no earlier than the
\* fetched_at of any bucket of the cache, except of the bucket a thread has
\* just stored, inside the lock, and whose timestamp update is its next step.
C24_LastBuildFollowsBuckets ==
    [][/\ \A t \in Threads :
            /\ (th[t].pc = "store" /\ th'[t].pc = "build") =>
                   /\ th[t].fetched
                   /\ news_cache'[th[t].cat].ts = now
                   /\ news_cache'[th[t].cat].items = th[t].items
            /\ (th[t].pc = "build" /\ th'[t].pc # "build") =>
                   /\ th'[t].pc = "ret"
                   /\ last_build' = now
                   /\ last_build' >= news_cache[th[t].cat].ts
       /\ last_build' >= last_build
       /\ \A c \in CategoryIds :
            /\ Present(news_cache, c) /\ Storing(c) = {} => last_build >= news_cache[c].ts
            /\ Present(news_cache', c) /\ Storing(c)' = {}
                   => last_build' >= news_cache'[c].ts]_vars

\* a bucket too old was replaced, the timestamp updated and the lock released
C24_Witness ==
    /\ cache_lock = NoThread
    /\ \E c \in CategoryIds :
          /\ Present(news_cache, c)
          /\ news_cache[c].ts > CACHE_TTL_SECONDS
          /\ last_build >= news_cache[c].ts
    /\ \E c \in CategoryIds : Present(news_cache, c) /\ news_cache[c].ts = 0

\* C24 (as stated): in every reachable state the last-build timestamp is no
\* earlier than the fetched_at of any bucket of the cache.
C24_NeverBehindABucket ==
    \A c \in CategoryIds : Present(news_cache, c) => last_build >= news_cache[c].ts

\* C25: the clear of api_refresh removes every bucket in one step, taken by
\* the thread that holds the lock, so that no _ensure_fresh inside its critical
\* section sees a cache cleared in part; and the first _ensure_fresh on a
\* category after the clear (here the first call of api_refresh's own _prewarm,
\* when no other thread came before it) fetches the category and goes on to
\* store its bucket, however recent the bucket removed.
C25_ClearThenRecreate ==
    [][/\ \A t \in RequestThreads :
            (th[t].pc = "clear" /\ th'[t].pc # "clear") =>
                /\ cache_lock = t
                /\ \A c \in CategoryIds : ~Present(news_cache', c)
       /\ \A t \in RequestThreads :
            (/\ th[t].op = "refresh" /\ th[t].pc = "lock" /\ th[t].idx = 1
             /\ ~th[t].behind
             /\ th'[t].pc # "lock" \/ th'[t].idx # 1) =>
                /\ ~Present(news_cache, th[t].cat)
                /\ th'[t].fetched
                /\ th'[t].pc = "store"]_vars

\* C26: the 'updated' api_news returns, read after the loop and without the
\* lock, is never earlier than the fetched_at of a bucket whose items went
\* into that response, whatever the refresher and api_refresh do meanwhile.
C26_UpdatedCoversBuckets ==
    [][\A t \in RequestThreads :
          (th[t].pc = "news_fin" /\ th'[t].pc = "idle") =>
              /\ th[t].newest >= 0
              /\ th'[t].result.updated >= th[t].newest]_vars

\* api_news has merged a bucket it refetched itself, stored after the TTL,
\* and is about to read the timestamp, which covers it
C26_Witness ==
    \E t \in RequestThreads :
        /\ th[t].pc = "news_fin"
        /\ th[t].newest > CACHE_TTL_SECONDS
        /\ last_build >= th[t].newest
        /\ \E c \in CategoryIds : Present(news_cache, c) /\ news_cache[c].ts = th[t].newest

\* the step in which the _ensure_fresh call of t ends with an exception
Raises(t) ==
    /\ th[t].pc = "lock"
    /\ th'[t].pc # "lock" \/ th'[t].idx # th[t].idx
    /\ th'[t].pc \notin {"store", "ret"}

\* C27: when an _ensure_fresh call that found its category stale ends with an
\* exception, the lock is free again, the entry of the category in the cache
\* (a bucket, or none) and the last-build timestamp are what they were, and
\* the category is still stale, so that the next _ensure_fresh on it fetches
\* again.
C27_ExceptionLeavesCache ==
    [][\A t \in Threads :
          Raises(t) =>
              /\ IsStale(news_cache, th[t].cat, now)
              /\ cache_lock' = NoThread
              /\ news_cache' = news_cache
              /\ last_build' = last_build
              /\ IsStale(news_cache', th[t].cat, now')]_vars

\* api_news has ended with the exception of the sink, which was handed the
\* new items: the lock is free and the category still has no bucket
C27_Witness ==
    \E t \in RequestThreads :
        /\ th[t].pc = "idle" /\ th[t].result.kind = "error"
        /\ cache_lock = NoThread
        /\ sent # {}
        /\ ~Present(news_cache, CATEGORIES[1])
        /\ IsStale(news_cache, CATEGORIES[1], now)

\* C28: the keys in _seen_ids are exactly the keys that were handed to
\* _notify_new_items: a key is added to the set in the refresh that hands its
\* item over, and in no other way. It holds in every state, those after a call
\* of _ensure_fresh has returned among them.
C28_SeenIsHanded ==
    seen_ids = sent

\* a refresh has handed its new items over and returned, the bucket it stored
\* is in the cache and the keys it handed over are the seen ones; a bucket
\* whose items have no real link left no key in the set
C28_Witness ==
    /\ seen_ids # {}
    /\ sent = seen_ids
    /\ cache_lock = NoThread
    /\ \E c \in CategoryIds :
          /\ Present(news_cache, c)
          /\ Keys(news_cache[c].items) \cap seen_ids # {}
    /\ \E c \in CategoryIds :
          /\ Present(news_cache, c)
          /\ ~(Keys(news_cache[c].items) \subseteq seen_ids)
    /\ \/ th["bg"].pc = "sleep"
       \/ \E t \in RequestThreads : th[t].pc = "idle" /\ th[t].result.kind = "bucket"

====
